---- MODULE Spec2Model ----
(***************************************************************************)
(* Model of the repository layer of the todo/label backend                 *)
(* (src/src/repositories/todo.rs, src/src/repositories/label.rs).          *)
(*                                                                         *)
(* Specifications over the variables below:                                *)
(*   Spec      the item repository used by one caller at a time, on the     *)
(*             backend chosen at start-up (in-memory or relational);        *)
(*   SpecFold  fold_entities applied to arbitrary bounded row sequences;    *)
(*   SpecDb    the relational item repository used by concurrent callers,  *)
(*             one SQL statement per step;                                  *)
(*   SpecLabel the label repository next to the item repository's create,   *)
(*             find, all and delete, one caller at a time, on either        *)
(*             backend;                                                     *)
(*   SpecFault the relational repositories on a store that may fail any     *)
(*             one round trip of a call;                                    *)
(*   SpecMem   the in-memory repositories used by concurrent callers, with  *)
(*             the RwLock of each store (SpecMemFair: under fair            *)
(*             scheduling);                                                 *)
(*   SpecRace  the relational label repository used by concurrent callers.  *)
(*                                                                         *)
(* Option<T> is modelled as a sequence of length 0 (None) or 1 (Some(v)).   *)
(* A result is [tag, val]: tag "Ok", an error kind, "Sqlx" (a backend error *)
(* propagated by `?` without conversion) or "Panic" (an unwrap that aborts  *)
(* the calling task).                                                      *)
(***************************************************************************)
EXTENDS Integers, Sequences, FiniteSets, TLC

VARIABLES
    backend,      \* "memory" | "db": the repository implementation selected at start-up
    store,        \* TodoRepositoryForMemory.store: id -> TodoEntity (HashMap<i32, TodoEntity>)
    poisoned,     \* whether the RwLock around `store` is poisoned (a panic under the write guard)
    db,           \* relational store: [todos, todo_labels, labels, todos_seq]
    last,         \* the last repository call and its result, as seen by the caller
    issued,       \* the ids the store has given to the items inserted so far
    rows,         \* SpecFold: the input of fold_entities
    folded,       \* SpecFold: the result of fold_entities(rows), None before the call
    pc,           \* SpecDb: each caller's position inside its repository call
    loc,          \* SpecDb: each caller's call, payload and local variables
    calls,        \* SpecDb: how many calls each caller has started
    seen,         \* SpecDb: per caller, whether a find or all of its returned a half-written item
    stripped,     \* SpecDb: per caller, the item whose join rows its running delete has removed
    label_store,  \* LabelRepositoryForMemory.store: id -> Label (HashMap<i32, Label>)
    lock          \* SpecMem: the RwLock of each in-memory store: its writer and its readers

vars == <<backend, store, poisoned, db, last, issued, rows, folded, pc, loc, calls, seen,
          stripped, label_store, lock>>

-----------------------------------------------------------------------------
(* Bounds and input domains *)

\* Items a store may hold (memory) / item ids the sequence may hand out (relational).
MaxTodos == 2

\* Length of the row sequences given to fold_entities in SpecFold.
MaxRows == 3

\* Calls each concurrent caller makes in SpecDb.
MaxCalls == 1

Texts == {"a", "b"}

None == <<>>

Some(v) == <<v>>

Option(S) == {None} \cup {Some(v) : v \in S}

\* The labels known to the stores: the Vec<Label> handed to
\* TodoRepositoryForMemory::new, and the initial content of the labels table.
KnownLabels == << [id |-> 1, name |-> "x"], [id |-> 2, name |-> "y"] >>

KnownLabelIds == {KnownLabels[i].id : i \in 1..Len(KnownLabels)}

\* One id no label has.
UnknownLabelId == Len(KnownLabels) + 1

\* The label_ids payloads tried: empty, in the order of KnownLabels, against
\* that order, and with an unknown id.
LabelIdInputs == { <<>>, <<1, 2>>, <<2, 1>>, <<UnknownLabelId>> }

Ok(v) == [tag |-> "Ok", val |-> v]

Err(kind, v) == [tag |-> kind, val |-> v]

NotFound(id) == Err("NotFound", <<id>>)

Panic == Err("Panic", <<>>)

\* sqlx::Error reaching the caller through `?` (anyhow), not a RepositoryError.
Sqlx == Err("Sqlx", <<>>)

-----------------------------------------------------------------------------
(* fold_entities *)

\* Position of the first entity of accum whose id is `id`, 0 if there is none
\* (the inner `while let Some(todo) = todos.next()` scan).
RECURSIVE ScanAccum(_, _, _)
ScanAccum(accum, id, j) ==
    IF j > Len(accum) THEN 0
    ELSE IF accum[j].id = id THEN j
    ELSE ScanAccum(accum, id, j + 1)

\* Label { id: row.label_id.unwrap(), name: row.label_name.clone().unwrap() }
RowLabel(row) == [id |-> row.label_id[1], name |-> row.label_name[1]]

\* Whether both unwraps of RowLabel succeed.
RowLabelUnwraps(row) == row.label_id # None /\ row.label_name # None

\* The mutant of FoldStep used by FoldGroupsLabelsInOrder: a row for an id
\* already in the output puts its label in front instead of at the end.
FoldStepPrepend(accum, row) ==
    LET j == ScanAccum(accum, row.id, 1) IN
    IF j # 0
    THEN IF RowLabelUnwraps(row)
         THEN Ok([accum EXCEPT ![j].labels = <<RowLabel(row)>> \o @])
         ELSE Panic
    ELSE IF row.label_id # None
         THEN IF RowLabelUnwraps(row)
              THEN Ok(Append(accum, [id |-> row.id, text |-> row.text,
                                     completed |-> row.completed,
                                     labels |-> <<RowLabel(row)>>]))
              ELSE Panic
         ELSE Ok(Append(accum, [id |-> row.id, text |-> row.text,
                                completed |-> row.completed, labels |-> <<>>]))

\* The mutant of FoldStep used by FoldLabellessRow: a row without a label is
\* skipped instead of producing an item.
FoldStepSkipNull(accum, row) ==
    LET j == ScanAccum(accum, row.id, 1) IN
    IF j # 0
    THEN IF RowLabelUnwraps(row)
         THEN Ok([accum EXCEPT ![j].labels = Append(@, RowLabel(row))])
         ELSE Panic
    ELSE IF row.label_id # None
         THEN IF RowLabelUnwraps(row)
              THEN Ok(Append(accum, [id |-> row.id, text |-> row.text,
                                     completed |-> row.completed,
                                     labels |-> <<RowLabel(row)>>]))
              ELSE Panic
         ELSE Ok(accum)

\* One iteration of the 'outer loop of fold_entities on `row`.
FoldStep(accum, row) ==
    LET j == ScanAccum(accum, row.id, 1) IN
    IF j # 0
    THEN \* todo.labels.push(Label { id: unwrap, name: unwrap }); continue 'outer
         IF RowLabelUnwraps(row)
         THEN Ok([accum EXCEPT ![j].labels = Append(@, RowLabel(row))])
         ELSE Panic
    ELSE IF row.label_id # None
         THEN IF RowLabelUnwraps(row)
              THEN Ok(Append(accum, [id |-> row.id, text |-> row.text,
                                     completed |-> row.completed,
                                     labels |-> <<RowLabel(row)>>]))
              ELSE Panic
         ELSE Ok(Append(accum, [id |-> row.id, text |-> row.text,
                                completed |-> row.completed, labels |-> <<>>]))

RECURSIVE FoldFrom(_, _, _)
FoldFrom(rs, i, accum) ==
    IF i > Len(rs) THEN Ok(accum)
    ELSE LET r == FoldStep(accum, rs[i]) IN
         IF r.tag = "Ok" THEN FoldFrom(rs, i + 1, r.val) ELSE r

\* fold_entities(rows): Ok(the entities) or Panic.
fold_entities(rs) == FoldFrom(rs, 1, <<>>)

-----------------------------------------------------------------------------
(* The relational store.  db.todos maps an item id to its row, db.labels a *)
(* label id to its name, db.todos_seq and db.labels_seq are the next values *)
(* of the two id sequences.                                                 *)
(* db.todo_labels maps an item id to the label ids of its join rows, in     *)
(* insertion order: no statement of the repository observes the relative    *)
(* order of the join rows of two different items (find selects one item,    *)
(* all orders by item id), and with no ORDER BY on the join rows the store  *)
(* returns them in the order it holds them.                                 *)

TodoIds == 1..MaxTodos

\* SQL: INSERT INTO todos (text, completed) VALUES ($1, false) RETURNING *
\* The returned row's id is d.todos_seq.
InsertTodo(d, text) ==
    [d EXCEPT !.todos = [i \in DOMAIN d.todos \cup {d.todos_seq} |->
                            IF i = d.todos_seq
                            THEN [text |-> text, completed |-> FALSE]
                            ELSE d.todos[i]],
              !.todos_seq = d.todos_seq + 1]

\* The join table's references: a join row names an existing item and an
\* existing label, else the INSERT fails.
ForeignKeysHold(d, todo_id, ids) ==
    /\ todo_id \in DOMAIN d.todos
    /\ \A k \in 1..Len(ids) : ids[k] \in DOMAIN d.labels

\* The same references seen from the items table: an item row that join rows
\* still name cannot be deleted.
ItemReferenced(d, id) == d.todo_labels[id] # <<>>

\* SQL: INSERT INTO todo_labels (todo_id, label_id) SELECT $1, id FROM unnest($2)
InsertTodoLabels(d, todo_id, ids) ==
    [d EXCEPT !.todo_labels[todo_id] = @ \o ids]

\* SQL: DELETE FROM todo_labels WHERE todo_id = $1
DeleteTodoLabels(d, todo_id) ==
    [d EXCEPT !.todo_labels[todo_id] = <<>>]

\* The mutant of DeleteTodoRow used by DeleteRemovesVisibility: the item row
\* stays behind.
DeleteTodoRowKeepsRow(d, id) == d

\* SQL: DELETE FROM todos WHERE id = $1
DeleteTodoRow(d, id) ==
    [d EXCEPT !.todos = [i \in DOMAIN d.todos \ {id} |-> d.todos[i]]]

\* SQL: UPDATE todos SET text = $1, completed = $2 WHERE id = $3
UpdateTodoRow(d, id, text, completed) ==
    IF id \in DOMAIN d.todos
    THEN [d EXCEPT !.todos[id] = [text |-> text, completed |-> completed]]
    ELSE d

\* One result row (TodoWithLabelFromRow) of the two LEFT OUTER JOINs: the
\* label columns are NULL when the item has no join row or the join row's
\* label is not in the labels table.  `join` is the join row's label_id, None
\* for the row of an item without join rows.
JoinRow(d, id, join) ==
    [id |-> id, text |-> d.todos[id].text, completed |-> d.todos[id].completed,
     label_id |-> IF join # None /\ join[1] \in DOMAIN d.labels
                  THEN Some(join[1]) ELSE None,
     label_name |-> IF join # None /\ join[1] \in DOMAIN d.labels
                    THEN Some(d.labels[join[1]]) ELSE None]

\* SQL: SELECT todos.*, labels.id as label_id, labels.name as label_name
\*      FROM todos LEFT OUTER JOIN todo_labels .. LEFT OUTER JOIN labels ..
\*      WHERE todos.id = $1
SelectTodo(d, id) ==
    IF id \notin DOMAIN d.todos THEN <<>>
    ELSE IF d.todo_labels[id] = <<>> THEN << JoinRow(d, id, None) >>
    ELSE [k \in 1..Len(d.todo_labels[id]) |-> JoinRow(d, id, Some(d.todo_labels[id][k]))]

\* The same join without WHERE, ORDER BY id desc: items from the highest id down.
RECURSIVE SelectFrom(_, _)
SelectFrom(d, id) ==
    IF id < 1 THEN <<>> ELSE SelectTodo(d, id) \o SelectFrom(d, id - 1)

SelectAll(d) == SelectFrom(d, d.todos_seq - 1)

\* TodoRepositoryForDb::find on store d.
FindDb(d, id) ==
    LET todos == fold_entities(SelectTodo(d, id)) IN
    IF todos.tag # "Ok" THEN todos
    ELSE IF todos.val = <<>> THEN NotFound(id)
    ELSE Ok(<<todos.val[1]>>)

\* TodoRepositoryForDb::all on store d.
AllDb(d) == fold_entities(SelectAll(d))

-----------------------------------------------------------------------------
(* The in-memory item repository (TodoRepositoryForMemory) *)

TodoEntity(id, text, completed, labels) ==
    [id |-> id, text |-> text, completed |-> completed, labels |-> labels]

\* label_list.find(|label| label.id == id) on the iterator at position pos:
\* the position of the first label from pos on with that id, 0 when the
\* iterator runs out.  The iterator is left behind that position.
RECURSIVE IterFind(_, _, _)
IterFind(list, pos, id) ==
    IF pos > Len(list) THEN 0
    ELSE IF list[pos].id = id THEN pos
    ELSE IterFind(list, pos + 1, id)

\* The map over label ids of resolve_labels, from the k-th id on, with the
\* shared iterator label_list at position pos.
RECURSIVE ResolveFrom(_, _, _, _, _)
ResolveFrom(list, ids, k, pos, acc) ==
    IF k > Len(ids) THEN Ok(acc)
    ELSE LET j == IterFind(list, pos, ids[k]) IN
         IF j = 0 THEN Panic      \* .unwrap() on None
         ELSE ResolveFrom(list, ids, k + 1, j + 1, Append(acc, list[j]))

\* TodoRepositoryForMemory::resolve_labels with self.labels = KnownLabels.
resolve_labels(ids) == ResolveFrom(KnownLabels, ids, 1, 1, <<>>)

\* store.insert(id, todo)
MapInsert(m, id, v) == [i \in DOMAIN m \cup {id} |-> IF i = id THEN v ELSE m[i]]

\* store.remove(&id)
MapRemove(m, id) == [i \in DOMAIN m \ {id} |-> m[i]]

\* TodoRepositoryForMemory::find on store m behind a lock whose poison flag is p.
FindMem(m, p, id) ==
    IF p THEN Panic
    ELSE IF id \in DOMAIN m THEN Ok(<<m[id]>>) ELSE NotFound(id)

\* The orders in which store.values() may yield the entities.
Enumerations(m) ==
    { s \in [1..Cardinality(DOMAIN m) -> DOMAIN m] :
        \A i, j \in DOMAIN s : i # j => s[i] # s[j] }

-----------------------------------------------------------------------------
(* Calls as the caller sees them *)

Call(op, id, text, completed, labels, result) ==
    [op |-> op, id |-> id, text |-> text, completed |-> completed,
     labels |-> labels, result |-> result]

NoCall == Call("none", 0, None, None, None, Ok(<<>>))

EmptyDb ==
    [todos |-> << >>,
     todo_labels |-> [i \in TodoIds |-> <<>>],
     labels |-> [i \in KnownLabelIds |->
                    (CHOOSE l \in {KnownLabels[k] : k \in 1..Len(KnownLabels)} : l.id = i).name],
     todos_seq |-> 1,
     labels_seq |-> Len(KnownLabels) + 1]

Callers == {1, 2}

Idle == [c \in Callers |-> "idle"]

\* A caller's frame: the call, and old_todo once update has read it.
Local(call, old) ==
    [op |-> call.op, id |-> call.id, text |-> call.text, completed |-> call.completed,
     labels |-> call.labels, result |-> call.result, old |-> old]

NoLocals == [c \in Callers |-> Local(NoCall, None)]

NoCalls == [c \in Callers |-> 0]

NothingSeen == [c \in Callers |-> FALSE]

NothingStripped == [c \in Callers |-> None]

\* The two in-memory stores, each behind its own RwLock.
Resources == {"todo", "label"}

Unlocked == [r \in Resources |-> [writer |-> None, readers |-> {}]]

\* find on backend b holding store m (lock poison flag p) or database d.
FindIn(b, m, p, d, id) == IF b = "memory" THEN FindMem(m, p, id) ELSE FindDb(d, id)

\* find on the selected backend, on the current state.
Find(id) == FindIn(backend, store, poisoned, db, id)

\* The ids of the items all() returns on the current state, None when it aborts.
AllIds ==
    IF backend = "memory"
    THEN IF poisoned THEN None ELSE Some(DOMAIN store)
    ELSE IF AllDb(db).tag # "Ok" THEN None
         ELSE Some({AllDb(db).val[k].id : k \in 1..Len(AllDb(db).val)})

Init ==
    /\ backend \in {"memory", "db"}
    /\ store = << >>
    /\ poisoned = FALSE
    /\ db = EmptyDb
    /\ last = NoCall
    /\ issued = {}
    /\ rows = <<>>
    /\ folded = None
    /\ pc = Idle
    /\ loc = NoLocals
    /\ calls = NoCalls
    /\ seen = NothingSeen
    /\ stripped = NothingStripped
    /\ label_store = << >>
    /\ lock = Unlocked

-----------------------------------------------------------------------------
(* The repository calls, each run to completion: [store/db after, result] *)

Out(m, p, result) == [store |-> m, poisoned |-> p, result |-> result]

\* let id = (store.len() + 1) as i32
NextMemId(m) == Cardinality(DOMAIN m) + 1

\* TodoRepositoryForMemory::create.  A panic in resolve_labels unwinds through
\* the write guard and poisons the lock; a poisoned lock makes write_store_ref
\* and read_store_ref panic in their unwrap.
CreateMem(m, p, text, ids) ==
    IF p THEN Out(m, p, Panic)
    ELSE LET id == NextMemId(m)
             labels == resolve_labels(ids)
         IN IF labels.tag # "Ok" THEN Out(m, TRUE, Panic)
            ELSE LET todo == TodoEntity(id, text, FALSE, labels.val)
                 IN Out(MapInsert(m, id, todo), p, Ok(<<todo>>))

\* The mutant of UpdateMem used by UpdateLeavesAbsentFieldsAlone: a payload
\* without labels stores an empty label list instead of the old one.
UpdateMemDropsLabels(m, p, id, text, completed, labels) ==
    IF p THEN Out(m, p, Panic)
    ELSE IF id \notin DOMAIN m THEN Out(m, p, NotFound(id))
    ELSE LET todo == m[id]
             new_text == IF text # None THEN text[1] ELSE todo.text
             new_completed == IF completed # None THEN completed[1] ELSE todo.completed
             new_labels == IF labels # None THEN resolve_labels(labels[1])
                           ELSE Ok(<<>>)
         IN IF new_labels.tag # "Ok" THEN Out(m, TRUE, Panic)
            ELSE LET new == TodoEntity(id, new_text, new_completed, new_labels.val)
                 IN Out(MapInsert(m, id, new), p, Ok(<<new>>))

\* TodoRepositoryForMemory::update
UpdateMem(m, p, id, text, completed, labels) ==
    IF p THEN Out(m, p, Panic)
    ELSE IF id \notin DOMAIN m THEN Out(m, p, NotFound(id))
    ELSE LET todo == m[id]
             new_text == IF text # None THEN text[1] ELSE todo.text
             new_completed == IF completed # None THEN completed[1] ELSE todo.completed
             new_labels == IF labels # None THEN resolve_labels(labels[1])
                           ELSE Ok(todo.labels)
         IN IF new_labels.tag # "Ok" THEN Out(m, TRUE, Panic)
            ELSE LET new == TodoEntity(id, new_text, new_completed, new_labels.val)
                 IN Out(MapInsert(m, id, new), p, Ok(<<new>>))

\* TodoRepositoryForMemory::delete
DeleteMem(m, p, id) ==
    IF p THEN Out(m, p, Panic)
    ELSE IF id \notin DOMAIN m THEN Out(m, p, NotFound(id))
    ELSE Out(MapRemove(m, id), p, Ok(<<>>))

DbOut(d, result) == [db |-> d, result |-> result]

\* The mutant of CreateDb used by CreateReadBack: create answers with the row
\* its INSERT returned instead of reading the item back.
CreateDbReturnsRow(d, text, ids) ==
    LET d1 == InsertTodo(d, text)
        id == d.todos_seq
    IN IF ~ForeignKeysHold(d1, id, ids) THEN DbOut(d1, Sqlx)
       ELSE DbOut(InsertTodoLabels(d1, id, ids),
                  Ok(<<TodoEntity(id, text, FALSE, <<>>)>>))

\* TodoRepositoryForDb::create.  The statements run on the pool, not on the
\* transaction `tx`, so each takes effect as soon as it has run; an error
\* returns through `?` and leaves what ran before it in place.
CreateDb(d, text, ids) ==
    LET d1 == InsertTodo(d, text)
        id == d.todos_seq
    IN IF ~ForeignKeysHold(d1, id, ids) THEN DbOut(d1, Sqlx)
       ELSE LET d2 == InsertTodoLabels(d1, id, ids)
            IN DbOut(d2, FindDb(d2, id))

\* TodoRepositoryForDb::update
UpdateDb(d, id, text, completed, labels) ==
    LET old_todo == FindDb(d, id) IN
    IF old_todo.tag # "Ok" THEN DbOut(d, old_todo)
    ELSE LET d1 == UpdateTodoRow(d, id,
                       IF text # None THEN text[1] ELSE old_todo.val[1].text,
                       IF completed # None THEN completed[1]
                       ELSE old_todo.val[1].completed)
         IN IF labels = None THEN DbOut(d1, FindDb(d1, id))
            ELSE LET d2 == DeleteTodoLabels(d1, id)
                 IN IF ~ForeignKeysHold(d2, id, labels[1]) THEN DbOut(d2, Sqlx)
                    ELSE LET d3 == InsertTodoLabels(d2, id, labels[1])
                         IN DbOut(d3, FindDb(d3, id))

\* TodoRepositoryForDb::delete.  execute() reports no error when no row
\* matches, so the call succeeds whether or not the item exists.
DeleteDb(d, id) ==
    DbOut(DeleteTodoRow(DeleteTodoLabels(d, id), id), Ok(<<>>))

-----------------------------------------------------------------------------
(* Spec: one caller at a time on the backend chosen at start-up.  `last`    *)
(* holds the call just made and its result until the caller takes it.      *)

FoldIdle == UNCHANGED <<rows, folded>>

ConcIdle == UNCHANGED <<pc, loc, calls, seen, stripped, lock>>

LabelIdle == UNCHANGED label_store

MemCreate ==
    /\ backend = "memory"
    /\ last = NoCall
    /\ NextMemId(store) <= MaxTodos
    /\ \E text \in Texts, ids \in LabelIdInputs :
         LET r == CreateMem(store, poisoned, text, ids) IN
         /\ store' = r.store
         /\ poisoned' = r.poisoned
         /\ last' = Call("create", 0, Some(text), None, Some(ids), r.result)
         /\ issued' = IF r.result.tag = "Ok"
                      THEN issued \cup {r.result.val[1].id} ELSE issued
    /\ UNCHANGED <<backend, db>>
    /\ FoldIdle /\ ConcIdle /\ LabelIdle

MemFind ==
    /\ backend = "memory"
    /\ last = NoCall
    /\ \E id \in TodoIds :
         last' = Call("find", id, None, None, None, FindMem(store, poisoned, id))
    /\ UNCHANGED <<backend, store, poisoned, db, issued>>
    /\ FoldIdle /\ ConcIdle /\ LabelIdle

\* TodoRepositoryForMemory::all: the values of the map, in the map's order.
MemAll ==
    /\ backend = "memory"
    /\ last = NoCall
    /\ IF poisoned
       THEN last' = Call("all", 0, None, None, None, Panic)
       ELSE \E e \in Enumerations(store) :
              last' = Call("all", 0, None, None, None,
                           Ok([k \in DOMAIN e |-> store[e[k]]]))
    /\ UNCHANGED <<backend, store, poisoned, db, issued>>
    /\ FoldIdle /\ ConcIdle /\ LabelIdle

MemUpdate ==
    /\ backend = "memory"
    /\ last = NoCall
    /\ \E id \in TodoIds, text \in Option(Texts), completed \in Option(BOOLEAN),
          labels \in Option(LabelIdInputs) :
         LET r == UpdateMem(store, poisoned, id, text, completed, labels) IN
         /\ store' = r.store
         /\ poisoned' = r.poisoned
         /\ last' = Call("update", id, text, completed, labels, r.result)
    /\ UNCHANGED <<backend, db, issued>>
    /\ FoldIdle /\ ConcIdle /\ LabelIdle

MemDelete ==
    /\ backend = "memory"
    /\ last = NoCall
    /\ \E id \in TodoIds :
         LET r == DeleteMem(store, poisoned, id) IN
         /\ store' = r.store
         /\ poisoned' = r.poisoned
         /\ last' = Call("delete", id, None, None, None, r.result)
    /\ UNCHANGED <<backend, db, issued>>
    /\ FoldIdle /\ ConcIdle /\ LabelIdle

DbCreate ==
    /\ backend = "db"
    /\ last = NoCall
    /\ db.todos_seq <= MaxTodos
    /\ \E text \in Texts, ids \in LabelIdInputs :
         LET r == CreateDb(db, text, ids) IN
         /\ db' = r.db
         /\ last' = Call("create", 0, Some(text), None, Some(ids), r.result)
         /\ issued' = issued \cup {db.todos_seq}
    /\ UNCHANGED <<backend, store, poisoned>>
    /\ FoldIdle /\ ConcIdle /\ LabelIdle

DbFind ==
    /\ backend = "db"
    /\ last = NoCall
    /\ \E id \in TodoIds :
         last' = Call("find", id, None, None, None, FindDb(db, id))
    /\ UNCHANGED <<backend, store, poisoned, db, issued>>
    /\ FoldIdle /\ ConcIdle /\ LabelIdle

DbAll ==
    /\ backend = "db"
    /\ last = NoCall
    /\ last' = Call("all", 0, None, None, None, AllDb(db))
    /\ UNCHANGED <<backend, store, poisoned, db, issued>>
    /\ FoldIdle /\ ConcIdle /\ LabelIdle

DbUpdate ==
    /\ backend = "db"
    /\ last = NoCall
    /\ \E id \in TodoIds, text \in Option(Texts), completed \in Option(BOOLEAN),
          labels \in Option(LabelIdInputs) :
         LET r == UpdateDb(db, id, text, completed, labels) IN
         /\ db' = r.db
         /\ last' = Call("update", id, text, completed, labels, r.result)
    /\ UNCHANGED <<backend, store, poisoned, issued>>
    /\ FoldIdle /\ ConcIdle /\ LabelIdle

DbDelete ==
    /\ backend = "db"
    /\ last = NoCall
    /\ \E id \in TodoIds :
         LET r == DeleteDb(db, id) IN
         /\ db' = r.db
         /\ last' = Call("delete", id, None, None, None, r.result)
    /\ UNCHANGED <<backend, store, poisoned, issued>>
    /\ FoldIdle /\ ConcIdle /\ LabelIdle

\* The caller takes the result: the call is over and the next one may start.
Respond ==
    /\ last # NoCall
    /\ last' = NoCall
    /\ UNCHANGED <<backend, store, poisoned, db, issued>>
    /\ FoldIdle /\ ConcIdle /\ LabelIdle

Next ==
    \/ Respond
    \/ MemCreate \/ MemFind \/ MemAll \/ MemUpdate \/ MemDelete
    \/ DbCreate \/ DbFind \/ DbAll \/ DbUpdate \/ DbDelete

Spec == Init /\ [][Next]_vars

-----------------------------------------------------------------------------
(* SpecFold: fold_entities on every row sequence of up to MaxRows rows *)

RowIds == {1, 2}

\* The label columns of a row: both NULL, or a label's id and name.
LabelColumns ==
    {[label_id |-> None, label_name |-> None]}
    \cup {[label_id |-> Some(KnownLabels[k].id), label_name |-> Some(KnownLabels[k].name)] :
            k \in 1..Len(KnownLabels)}

\* The item columns of a row; rows of one id may disagree on them.
ItemColumns == {[text |-> "a", completed |-> FALSE], [text |-> "b", completed |-> TRUE]}

RowValues ==
    {[id |-> i, text |-> c.text, completed |-> c.completed,
      label_id |-> l.label_id, label_name |-> l.label_name] :
        i \in RowIds, c \in ItemColumns, l \in LabelColumns}

InitFold ==
    /\ backend = "db"
    /\ store = << >>
    /\ poisoned = FALSE
    /\ db = EmptyDb
    /\ last = NoCall
    /\ issued = {}
    /\ rows \in UNION {[1..n -> RowValues] : n \in 0..MaxRows}
    /\ folded = None
    /\ pc = Idle
    /\ loc = NoLocals
    /\ calls = NoCalls
    /\ seen = NothingSeen
    /\ stripped = NothingStripped
    /\ label_store = << >>
    /\ lock = Unlocked

FoldCall ==
    /\ folded = None
    /\ folded' = Some(fold_entities(rows))
    /\ UNCHANGED <<backend, store, poisoned, db, last, issued, rows>>
    /\ ConcIdle /\ LabelIdle

NextFold == FoldCall

SpecFold == InitFold /\ [][NextFold]_vars

\* The positions of rs holding the first row of each id, ascending.
FirstPositions(rs) ==
    LET F == {i \in 1..Len(rs) : \A j \in 1..(i - 1) : rs[j].id # rs[i].id}
    IN CHOOSE s \in [1..Cardinality(F) -> F] : \A a, b \in DOMAIN s : a < b => s[a] < s[b]

\* The labels of the rows of rs with the given id, in the order of rs.
LabelsOfId(rs, id) ==
    LET mine == SelectSeq(rs, LAMBDA r : r.id = id)
    IN [k \in 1..Len(mine) |-> [id |-> mine[k].label_id[1], name |-> mine[k].label_name[1]]]

\* What the fold of label-bearing rows is to be: one item per id at the place
\* of the id's first row, with that row's text and completed.
GroupedByFirstOccurrence(rs) ==
    LET f == FirstPositions(rs)
    IN [k \in DOMAIN f |->
          [id |-> rs[f[k]].id, text |-> rs[f[k]].text, completed |-> rs[f[k]].completed,
           labels |-> LabelsOfId(rs, rs[f[k]].id)]]

AllLabelBearing(rs) ==
    \A i \in 1..Len(rs) : rs[i].label_id # None /\ rs[i].label_name # None

\* The rearrangements of 1..n that keep the rows of each id in their order.
OrderKeepingPermutations(rs) ==
    { p \in [1..Len(rs) -> 1..Len(rs)] :
        /\ \A a, b \in 1..Len(rs) : a # b => p[a] # p[b]
        /\ \A a, b \in 1..Len(rs) :
             (a < b /\ rs[p[a]].id = rs[p[b]].id) => p[a] < p[b] }

Items(r) == {r.val[k] : k \in 1..Len(r.val)}

\* C6  Fold correctness: on label-bearing rows fold_entities returns one item
\* per distinct id, in order of the ids' first rows, with text/completed of
\* that first row and the labels of the id's rows in input order; and any
\* rearrangement of the rows that keeps each id's rows in their relative
\* order folds to the same set of items with the same label orders.
FoldGroupsLabelsInOrder ==
    (folded # None /\ AllLabelBearing(rows)) =>
        /\ folded[1] = Ok(GroupedByFirstOccurrence(rows))
        /\ \A p \in OrderKeepingPermutations(rows) :
             LET r == fold_entities([k \in 1..Len(rows) |-> rows[p[k]]])
             IN r.tag = "Ok" /\ Items(r) = Items(folded[1])

\* A fold of rows in which the two ids interleave and one id has two labels.
FoldGroupsLabelsInOrderWitness ==
    /\ folded # None
    /\ AllLabelBearing(rows)
    /\ Len(rows) = MaxRows
    /\ rows[1].id = rows[MaxRows].id
    /\ rows[1].id # rows[2].id
    /\ rows[1].label_id # rows[MaxRows].label_id
    /\ Len(folded[1].val) = 2

\* Row i of rs has no label and is the only row of its id.
LoneLabellessRow(rs, i) ==
    /\ rs[i].label_id = None /\ rs[i].label_name = None
    /\ \A j \in 1..Len(rs) : j # i => rs[j].id # rs[i].id

\* C7  Fold with no labels: a row with label_id and label_name absent that is
\* the only row of its id folds to an item with the row's id, text and
\* completed and an empty label sequence, present (once) in the output; the
\* fold returns whenever the other rows bear labels.
FoldLabellessRow ==
    \A i \in 1..Len(rows) :
        (folded # None /\ LoneLabellessRow(rows, i)) =>
            /\ (\A j \in 1..Len(rows) : j # i => rows[j].label_id # None)
                  => folded[1].tag = "Ok"
            /\ folded[1].tag = "Ok" =>
                 /\ [id |-> rows[i].id, text |-> rows[i].text,
                     completed |-> rows[i].completed, labels |-> <<>>] \in Items(folded[1])
                 /\ Cardinality({k \in 1..Len(folded[1].val) :
                                    folded[1].val[k].id = rows[i].id}) = 1

\* A label-less row folded next to a labelled row of the other id.
FoldLabellessRowWitness ==
    /\ folded # None
    /\ Len(rows) = 2
    /\ LoneLabellessRow(rows, 2)
    /\ rows[1].label_id # None
    /\ folded[1].tag = "Ok"
    /\ Len(folded[1].val) = 2

\* The rows of rs from the k-th on, without the label-less rows whose id an
\* earlier row of rs has.
RECURSIVE WithoutLabellessRepeats(_, _)
WithoutLabellessRepeats(rs, k) ==
    IF k > Len(rs) THEN <<>>
    ELSE IF rs[k].label_id = None /\ \E j \in 1..(k - 1) : rs[j].id = rs[k].id
         THEN WithoutLabellessRepeats(rs, k + 1)
         ELSE <<rs[k]>> \o WithoutLabellessRepeats(rs, k + 1)

\* C23  Fold tolerates a label-less row for an id already seen: fold_entities
\* returns for every sequence of rows, and a row with no label whose id is
\* already in the output changes nothing: the output is that of the rows
\* without it.
FoldToleratesLabellessRepeat ==
    folded # None =>
        /\ folded[1].tag = "Ok"
        /\ folded[1] = fold_entities(WithoutLabellessRepeats(rows, 1))

-----------------------------------------------------------------------------
(* Claims about the item repository under Spec *)

\* The labels with the given ids, in the order of the ids.
LabelsFor(ids) ==
    [k \in 1..Len(ids) |->
        CHOOSE l \in {KnownLabels[i] : i \in 1..Len(KnownLabels)} : l.id = ids[k]]

AllKnown(ids) == \A k \in 1..Len(ids) : ids[k] \in KnownLabelIds

\* What is stored under id, whatever the state of the lock.
Stored(b, m, d, id) == FindIn(b, m, FALSE, d, id)

\* C1  Round trip, both backends: when create returns an entity e, a find of
\* e.id issued next, with no write in between, returns an entity equal to e.
CreateReadBack ==
    (last.op = "create" /\ last.result.tag = "Ok") =>
        Find(last.result.val[1].id) = Ok(<<last.result.val[1]>>)

\* A relational create that returned an item with two labels, given against
\* the order of the label ids.
CreateReadBackWitness ==
    /\ backend = "db"
    /\ last.op = "create"
    /\ last.labels = Some(<<2, 1>>)
    /\ last.result.tag = "Ok"
    /\ Len(last.result.val[1].labels) = 2

\* C2  Id assignment: the id returned by a create that inserts an item is 1
\* for the first item of the store, greater than every id given out before,
\* and was never given out before, also after deletions.
IdsNeverReused ==
    [][ (last'.op = "create" /\ last'.result.tag = "Ok") =>
            /\ last'.result.val[1].id \notin issued
            /\ \A j \in issued : j < last'.result.val[1].id
            /\ issued = {} => last'.result.val[1].id = 1 ]_vars

\* C3  Delete removes visibility, both backends: after delete(id) returned
\* success, a find(id) issued next fails with NotFound(id) and all() returns
\* no item with that id.
DeleteRemovesVisibility ==
    (last.op = "delete" /\ last.result.tag = "Ok") =>
        /\ Find(last.id) = NotFound(last.id)
        /\ AllIds # None
        /\ last.id \notin AllIds[1]

\* A relational delete of an item that had been created, another item remaining.
DeleteRemovesVisibilityWitness ==
    /\ backend = "db"
    /\ last.op = "delete"
    /\ last.result.tag = "Ok"
    /\ last.id \in issued
    /\ DOMAIN db.todos # {}

\* C4  Partial update preserves untouched fields, both backends: an update of
\* an existing item leaves the stored text as it was unless the payload has a
\* text, the stored completed unless it has a completed, the stored labels
\* unless it has label ids; the id stays; the item returned is the stored one.
UpdateLeavesAbsentFieldsAlone ==
    [][ (last'.op = "update" /\ Stored(backend, store, db, last'.id).tag = "Ok") =>
            LET before == Stored(backend, store, db, last'.id).val[1]
                after == Stored(backend, store', db', last'.id)
            IN /\ after.tag = "Ok"
               /\ after.val[1].id = before.id
               /\ last'.text = None => after.val[1].text = before.text
               /\ last'.completed = None => after.val[1].completed = before.completed
               /\ last'.labels = None => after.val[1].labels = before.labels
               /\ last'.result.tag = "Ok" => last'.result.val[1] = after.val[1] ]_vars

\* An update of the text alone of a completed item with labels.
UpdateLeavesAbsentFieldsAloneWitness ==
    /\ last.op = "update"
    /\ last.text = Some("b") /\ last.completed = None /\ last.labels = None
    /\ last.result.tag = "Ok"
    /\ last.result.val[1].completed
    /\ last.result.val[1].labels # <<>>

\* C5  Label-clearing is explicit: an update of an existing item (the lock
\* not poisoned) with label_ids = Some([]) returns the item without labels,
\* with Some(ids), ids known, returns it with exactly the labels of ids, and
\* with None returns it with the labels it had.
UpdateSetsLabelsAsGiven ==
    [][ (/\ last'.op = "update"
         /\ ~poisoned
         /\ Stored(backend, store, db, last'.id).tag = "Ok"
         /\ last'.labels # None => AllKnown(last'.labels[1])) =>
            /\ last'.result.tag = "Ok"
            /\ last'.result.val[1].labels =
                 IF last'.labels # None THEN LabelsFor(last'.labels[1])
                 ELSE Stored(backend, store, db, last'.id).val[1].labels ]_vars

\* C8  Create with known labels: for label_ids that are all ids of known
\* labels, in any order, create (the lock not poisoned) succeeds and returns
\* an item with the given text, completed = false and the labels of those ids.
CreateResolvesKnownLabels ==
    [][ (last'.op = "create" /\ ~poisoned /\ AllKnown(last'.labels[1])) =>
            /\ last'.result.tag = "Ok"
            /\ last'.result.val[1].text = last'.text[1]
            /\ last'.result.val[1].completed = FALSE
            /\ last'.result.val[1].labels = LabelsFor(last'.labels[1]) ]_vars

\* C9  Unknown label ids, in-memory backend: a create, or an update of an
\* existing item with label_ids = Some(ids), whose ids include an unknown one
\* fails with a NotFound error and leaves the item store as it was.
UnknownLabelIsNotFound ==
    [][ (/\ backend = "memory"
         /\ last'.op \in {"create", "update"}
         /\ ~poisoned
         /\ last'.op = "update" => last'.id \in DOMAIN store
         /\ last'.labels # None
         /\ ~AllKnown(last'.labels[1])) =>
            /\ last'.result.tag = "NotFound"
            /\ store' = store ]_vars

\* C11  Persistent-backend failure atomicity: a relational create whose
\* label_ids name a label that does not exist returns an Unexpected error and
\* leaves the items and the join rows as they were before the call; a find
\* of the id the call drew from the sequence fails with NotFound.
FailedCreateLeavesNoRow ==
    [][ (/\ backend = "db"
         /\ last'.op = "create"
         /\ \E k \in 1..Len(last'.labels[1]) : last'.labels[1][k] \notin DOMAIN db.labels) =>
            /\ last'.result.tag = "Unexpected"
            /\ db'.todos = db.todos
            /\ db'.todo_labels = db.todo_labels
            /\ FindDb(db', db.todos_seq).tag = "NotFound" ]_vars

-----------------------------------------------------------------------------
(* SpecDb: the relational item repository under concurrent callers.  Every *)
(* statement is awaited on the pool, so a call is a sequence of steps, one  *)
(* statement each, and other callers' statements run in between.  begin()   *)
(* and commit() act on a connection no statement uses and change nothing;   *)
(* they are folded into the step of the statement next to them.             *)

\* The store after one create, as the callers of SpecDb may find it.
SeededDb == CreateDb(EmptyDb, "a", <<1, 2>>).db

InitDb ==
    /\ backend = "db"
    /\ store = << >>
    /\ poisoned = FALSE
    /\ db \in {EmptyDb, SeededDb}
    /\ last = NoCall
    /\ issued = 1..(db.todos_seq - 1)
    /\ rows = <<>>
    /\ folded = None
    /\ pc = Idle
    /\ loc = NoLocals
    /\ calls = NoCalls
    /\ seen = NothingSeen
    /\ stripped = NothingStripped
    /\ label_store = << >>
    /\ lock = Unlocked

SeqIdle == UNCHANGED <<backend, store, poisoned, last, rows, folded, label_store, lock>>

\* Caller w has written the item row of `id` and not yet the join rows it is
\* to have: a create past its first INSERT, or an update past its DELETE of
\* the join rows, each with a non-empty label_ids of existing labels.
HalfWritten(w, id) ==
    /\ pc[w] \in {"create_labels", "update_insert"}
    /\ loc[w].id = id
    /\ loc[w].labels[1] # <<>>
    /\ \A k \in 1..Len(loc[w].labels[1]) : loc[w].labels[1][k] \in DOMAIN db.labels

\* Whether result r, read by caller c, shows an item another caller has half written.
ShowsHalfWritten(c, r) ==
    /\ r.tag = "Ok"
    /\ \E k \in 1..Len(r.val), w \in Callers \ {c} :
         HalfWritten(w, r.val[k].id) /\ r.val[k].labels = <<>>

Start(c) == pc[c] = "idle" /\ calls[c] < MaxCalls

Finish(c, result) ==
    /\ pc' = [pc EXCEPT ![c] = "done"]
    /\ loc' = [loc EXCEPT ![c].result = result]

\* create, lines 108-114: begin, INSERT INTO todos.
CreateInsertTodo(c) ==
    /\ Start(c)
    /\ db.todos_seq <= MaxTodos
    /\ \E text \in Texts, ids \in LabelIdInputs :
         loc' = [loc EXCEPT ![c] =
                   Local(Call("create", db.todos_seq, Some(text), None, Some(ids), Ok(<<>>)), None)]
    /\ db' = InsertTodo(db, loc'[c].text[1])
    /\ issued' = issued \cup {db.todos_seq}
    /\ pc' = [pc EXCEPT ![c] = "create_labels"]
    /\ calls' = [calls EXCEPT ![c] = @ + 1]
    /\ UNCHANGED <<seen, stripped>>
    /\ SeqIdle

\* create, lines 116-121: INSERT INTO todo_labels, commit.
CreateInsertLabels(c) ==
    /\ pc[c] = "create_labels"
    /\ IF ForeignKeysHold(db, loc[c].id, loc[c].labels[1])
       THEN /\ db' = InsertTodoLabels(db, loc[c].id, loc[c].labels[1])
            /\ pc' = [pc EXCEPT ![c] = "create_find"]
            /\ UNCHANGED loc
       ELSE /\ Finish(c, Sqlx)
            /\ UNCHANGED db
    /\ UNCHANGED <<issued, calls, seen, stripped>>
    /\ SeqIdle

\* create, lines 123-124: self.find(row.id).
CreateFind(c) ==
    /\ pc[c] = "create_find"
    /\ Finish(c, FindDb(db, loc[c].id))
    /\ UNCHANGED <<db, issued, calls, seen, stripped>>
    /\ SeqIdle

\* update, lines 163-164: begin, self.find(id).
UpdateFindOld(c) ==
    /\ Start(c)
    /\ \E id \in TodoIds, text \in Option(Texts), completed \in Option(BOOLEAN),
          labels \in Option(LabelIdInputs) :
         LET old_todo == FindDb(db, id) IN
         /\ loc' = [loc EXCEPT ![c] =
                      Local(Call("update", id, text, completed, labels, old_todo),
                            IF old_todo.tag = "Ok" THEN Some(old_todo.val[1]) ELSE None)]
         /\ pc' = [pc EXCEPT ![c] = IF old_todo.tag = "Ok" THEN "update_row" ELSE "done"]
    /\ calls' = [calls EXCEPT ![c] = @ + 1]
    /\ UNCHANGED <<db, issued, seen, stripped>>
    /\ SeqIdle

\* update, lines 165-170: UPDATE todos.
UpdateRow(c) ==
    /\ pc[c] = "update_row"
    /\ db' = UpdateTodoRow(db, loc[c].id,
                 IF loc[c].text # None THEN loc[c].text[1] ELSE loc[c].old[1].text,
                 IF loc[c].completed # None THEN loc[c].completed[1]
                 ELSE loc[c].old[1].completed)
    /\ pc' = [pc EXCEPT ![c] = IF loc[c].labels # None THEN "update_delete" ELSE "update_find"]
    /\ UNCHANGED <<loc, issued, calls, seen, stripped>>
    /\ SeqIdle

\* update, lines 173-176: DELETE FROM todo_labels.
UpdateDeleteLabels(c) ==
    /\ pc[c] = "update_delete"
    /\ db' = DeleteTodoLabels(db, loc[c].id)
    /\ pc' = [pc EXCEPT ![c] = "update_insert"]
    /\ UNCHANGED <<loc, issued, calls, seen, stripped>>
    /\ SeqIdle

\* update, lines 177-183: INSERT INTO todo_labels, commit.
UpdateInsertLabels(c) ==
    /\ pc[c] = "update_insert"
    /\ IF ForeignKeysHold(db, loc[c].id, loc[c].labels[1])
       THEN /\ db' = InsertTodoLabels(db, loc[c].id, loc[c].labels[1])
            /\ pc' = [pc EXCEPT ![c] = "update_find"]
            /\ UNCHANGED loc
       ELSE /\ Finish(c, Sqlx)
            /\ UNCHANGED db
    /\ UNCHANGED <<issued, calls, seen, stripped>>
    /\ SeqIdle

\* update, lines 185-186: self.find(id).
UpdateFind(c) ==
    /\ pc[c] = "update_find"
    /\ Finish(c, FindDb(db, loc[c].id))
    /\ UNCHANGED <<db, issued, calls, seen, stripped>>
    /\ SeqIdle

\* delete, lines 190-198: begin, DELETE FROM todo_labels.
DeleteLabels(c) ==
    /\ Start(c)
    /\ \E id \in TodoIds :
         loc' = [loc EXCEPT ![c] = Local(Call("delete", id, None, None, None, Ok(<<>>)), None)]
    /\ db' = DeleteTodoLabels(db, loc'[c].id)
    /\ stripped' = [stripped EXCEPT ![c] =
                       IF loc'[c].id \in DOMAIN db.todos /\ db.todo_labels[loc'[c].id] # <<>>
                       THEN Some(loc'[c].id) ELSE None]
    /\ pc' = [pc EXCEPT ![c] = "delete_row"]
    /\ calls' = [calls EXCEPT ![c] = @ + 1]
    /\ UNCHANGED <<issued, seen>>
    /\ SeqIdle

\* delete, lines 200-210: DELETE FROM todos, commit.  The statement fails
\* while join rows still name the item (another caller has inserted some
\* since this call deleted them); map_err makes that error Unexpected.
DeleteRow(c) ==
    /\ pc[c] = "delete_row"
    /\ IF ~ItemReferenced(db, loc[c].id)
       THEN /\ db' = DeleteTodoRow(db, loc[c].id)
            /\ Finish(c, Ok(<<>>))
       ELSE /\ Finish(c, Err("Unexpected", <<>>))
            /\ UNCHANGED db
    /\ stripped' = [stripped EXCEPT ![c] = None]
    /\ UNCHANGED <<issued, calls, seen>>
    /\ SeqIdle

\* find, lines 127-146.
ConcFind(c) ==
    /\ Start(c)
    /\ \E id \in TodoIds :
         /\ loc' = [loc EXCEPT ![c] =
                      Local(Call("find", id, None, None, None, FindDb(db, id)), None)]
         /\ seen' = [seen EXCEPT ![c] = @ \/ ShowsHalfWritten(c, FindDb(db, id))]
    /\ pc' = [pc EXCEPT ![c] = "done"]
    /\ calls' = [calls EXCEPT ![c] = @ + 1]
    /\ UNCHANGED <<db, issued, stripped>>
    /\ SeqIdle

\* all, lines 148-160.
ConcAll(c) ==
    /\ Start(c)
    /\ loc' = [loc EXCEPT ![c] = Local(Call("all", 0, None, None, None, AllDb(db)), None)]
    /\ seen' = [seen EXCEPT ![c] = @ \/ ShowsHalfWritten(c, AllDb(db))]
    /\ pc' = [pc EXCEPT ![c] = "done"]
    /\ calls' = [calls EXCEPT ![c] = @ + 1]
    /\ UNCHANGED <<db, issued, stripped>>
    /\ SeqIdle

\* The caller takes the result of its call.
ConcRespond(c) ==
    /\ pc[c] = "done"
    /\ pc' = [pc EXCEPT ![c] = "idle"]
    /\ loc' = [loc EXCEPT ![c] = Local(NoCall, None)]
    /\ UNCHANGED <<db, issued, calls, seen, stripped>>
    /\ SeqIdle

NextDb ==
    \E c \in Callers :
        \/ CreateInsertTodo(c) \/ CreateInsertLabels(c) \/ CreateFind(c)
        \/ UpdateFindOld(c) \/ UpdateRow(c) \/ UpdateDeleteLabels(c)
        \/ UpdateInsertLabels(c) \/ UpdateFind(c)
        \/ DeleteLabels(c) \/ DeleteRow(c)
        \/ ConcFind(c) \/ ConcAll(c)
        \/ ConcRespond(c)

SpecDb == InitDb /\ [][NextDb]_vars

\* C10  Persistent-backend atomicity towards concurrent readers: no find or
\* all running beside a create with non-empty label_ids, or beside an update
\* with label_ids = Some(non-empty), returns the item in its intermediate
\* state: the new item row without its join rows, or the item with its join
\* rows cleared and the new ones not yet inserted.
NoHalfWrittenRead == \A c \in Callers : ~seen[c]

\* C12  Item delete shows no partial state: no find or all that runs beside
\* a delete(id) of an item with labels returns that item still present with
\* an empty label list, its join rows removed and its row not yet.
NoStrippedItemRead ==
    [][ \A c \in Callers :
          (/\ pc[c] = "idle" /\ pc'[c] = "done"
           /\ loc'[c].op \in {"find", "all"}
           /\ loc'[c].result.tag = "Ok") =>
              \A k \in 1..Len(loc'[c].result.val), w \in Callers \ {c} :
                  ~(/\ stripped[w] = Some(loc'[c].result.val[k].id)
                    /\ loc'[c].result.val[k].labels = <<>>) ]_vars

\* C25  Concurrent partial updates, persistent backend: the UPDATE of an
\* update call that omits text (completed) leaves the stored text
\* (completed) of the item as it is, whatever other update runs beside it;
\* and once an update of one item with only text and another with only
\* completed have both returned, the item has the new text and the new
\* completed.
PartialUpdatesKeepOmittedFields ==
    [][ /\ \A c \in Callers :
              (/\ pc[c] = "update_row" /\ pc'[c] # "update_row"
               /\ loc[c].id \in DOMAIN db.todos) =>
                  /\ loc[c].text = None =>
                        db'.todos[loc[c].id].text = db.todos[loc[c].id].text
                  /\ loc[c].completed = None =>
                        db'.todos[loc[c].id].completed = db.todos[loc[c].id].completed
        /\ \A c, d \in Callers :
              (/\ pc'[c] = "done" /\ pc'[d] = "done"
               /\ loc'[c].op = "update" /\ loc'[d].op = "update"
               /\ loc'[c].id = loc'[d].id
               /\ loc'[c].result.tag = "Ok" /\ loc'[d].result.tag = "Ok"
               /\ loc'[c].text # None /\ loc'[c].completed = None
               /\ loc'[d].text = None /\ loc'[d].completed # None) =>
                  /\ db'.todos[loc'[c].id].text = loc'[c].text[1]
                  /\ db'.todos[loc'[c].id].completed = loc'[d].completed[1] ]_vars

-----------------------------------------------------------------------------
(* The label repositories (label.rs).  A label result is Ok(<<label>>), the *)
(* result of all is Ok(the labels).  No call of LabelRepositoryForMemory    *)
(* panics under its guard, so its lock is never poisoned.                   *)

\* New labels a run may insert.
MaxLabels == 2

\* The names given to create: one the labels table holds from the start, one new.
LabelNames == {"x", "z"}

Label(id, name) == [id |-> id, name |-> name]

Duplicate(id) == Err("Duplicate", <<id>>)

Unexpected == Err("Unexpected", <<>>)

LabelOut(m, result) == [label_store |-> m, result |-> result]

\* store.iter().find(|(_key, label)| label.name == payload.name): the ids
\* of the stored labels with that name.
MemLabelsNamed(m, name) == {i \in DOMAIN m : m[i].name = name}

\* let id = (store.len() + 1) as i32
NextLabelId(m) == Cardinality(DOMAIN m) + 1

\* The mutant of CreateLabelMem used by LabelCreateIsIdempotent: a name
\* already stored is stored again under the next id.
CreateLabelMemAlwaysInserts(m, name) ==
    LET label == Label(NextLabelId(m), name)
    IN LabelOut(MapInsert(m, NextLabelId(m), label), Ok(<<label>>))

\* LabelRepositoryForMemory::create
CreateLabelMem(m, name) ==
    IF MemLabelsNamed(m, name) # {}
    THEN LabelOut(m, Ok(<<m[CHOOSE i \in MemLabelsNamed(m, name) : TRUE]>>))
    ELSE LET label == Label(NextLabelId(m), name)
         IN LabelOut(MapInsert(m, NextLabelId(m), label), Ok(<<label>>))

\* LabelRepositoryForMemory::delete
DeleteLabelMem(m, id) ==
    IF id \in DOMAIN m THEN LabelOut(MapRemove(m, id), Ok(<<>>))
    ELSE LabelOut(m, NotFound(id))

\* SQL: SELECT * FROM labels WHERE name = $1, fetch_optional: the first row
\* with that name (the one of lowest id), None when there is none.
SelectLabelNamed(d, name) ==
    LET hits == {i \in DOMAIN d.labels : d.labels[i] = name}
    IN IF hits = {} THEN None
       ELSE LET i == CHOOSE i \in hits : \A j \in hits : i <= j
            IN Some(Label(i, name))

\* SQL: INSERT INTO labels (name) VALUES ($1) RETURNING *
InsertLabel(d, name) ==
    [d EXCEPT !.labels = [i \in DOMAIN d.labels \cup {d.labels_seq} |->
                             IF i = d.labels_seq THEN name ELSE d.labels[i]],
              !.labels_seq = d.labels_seq + 1]

\* The mutant of CreateLabelDb used by DuplicateLabelRefused: the row is
\* inserted before the name is looked up.
CreateLabelDbInsertsFirst(d, name) ==
    LET optional_label == SelectLabelNamed(d, name)
    IN IF optional_label # None
       THEN DbOut(InsertLabel(d, name), Duplicate(optional_label[1].id))
       ELSE DbOut(InsertLabel(d, name), Ok(<<Label(d.labels_seq, name)>>))

\* LabelRepositoryForDb::create
CreateLabelDb(d, name) ==
    LET optional_label == SelectLabelNamed(d, name)
    IN IF optional_label # None
       THEN DbOut(d, Duplicate(optional_label[1].id))
       ELSE DbOut(InsertLabel(d, name), Ok(<<Label(d.labels_seq, name)>>))

\* SQL: SELECT * FROM labels ORDER BY labels.id ASC
RECURSIVE SelectLabelsFrom(_, _)
SelectLabelsFrom(d, id) ==
    IF id >= d.labels_seq THEN <<>>
    ELSE (IF id \in DOMAIN d.labels THEN <<Label(id, d.labels[id])>> ELSE <<>>)
         \o SelectLabelsFrom(d, id + 1)

\* LabelRepositoryForDb::all
AllLabelsDb(d) == Ok(SelectLabelsFrom(d, 1))

\* The join table's reference to a label does not hold the label back: the
\* DELETE of a label that join rows name goes through and leaves those rows.
LabelDeleteRefused(d, id) == FALSE

\* SQL: DELETE FROM labels WHERE id = $1
DeleteLabelRow(d, id) ==
    [d EXCEPT !.labels = [i \in DOMAIN d.labels \ {id} |-> d.labels[i]]]

\* LabelRepositoryForDb::delete.  execute() reports no error when no row
\* matches (RowNotFound comes from fetch_one only), so map_err sees an error
\* only when the statement itself fails.
DeleteLabelDb(d, id) ==
    IF LabelDeleteRefused(d, id) THEN DbOut(d, Unexpected)
    ELSE DbOut(DeleteLabelRow(d, id), Ok(<<>>))

-----------------------------------------------------------------------------
(* SpecLabel: the label repository and the item repository of the backend   *)
(* chosen at start-up, one caller at a time: the label calls, and the item  *)
(* calls that write and read the labels of items or remove items.           *)

LabelIds == 1..(Len(KnownLabels) + MaxLabels)

ItemsIdle == UNCHANGED <<store, poisoned, issued>>

\* A label call as the caller sees it: the name given to create in `text`.
LabelCall(op, id, name, result) == Call(op, id, name, None, None, result)

LabelMemCreate ==
    /\ backend = "memory"
    /\ last = NoCall
    /\ \E name \in LabelNames :
         /\ MemLabelsNamed(label_store, name) # {} \/ NextLabelId(label_store) <= MaxLabels
         /\ LET r == CreateLabelMem(label_store, name) IN
            /\ label_store' = r.label_store
            /\ last' = LabelCall("label_create", 0, Some(name), r.result)
    /\ UNCHANGED <<backend, db>>
    /\ ItemsIdle /\ FoldIdle /\ ConcIdle

\* LabelRepositoryForMemory::all: the values of the map, in the map's order.
LabelMemAll ==
    /\ backend = "memory"
    /\ last = NoCall
    /\ \E e \in Enumerations(label_store) :
         last' = LabelCall("label_all", 0, None, Ok([k \in DOMAIN e |-> label_store[e[k]]]))
    /\ UNCHANGED <<backend, db>>
    /\ ItemsIdle /\ FoldIdle /\ ConcIdle /\ LabelIdle

LabelMemDelete ==
    /\ backend = "memory"
    /\ last = NoCall
    /\ \E id \in LabelIds :
         LET r == DeleteLabelMem(label_store, id) IN
         /\ label_store' = r.label_store
         /\ last' = LabelCall("label_delete", id, None, r.result)
    /\ UNCHANGED <<backend, db>>
    /\ ItemsIdle /\ FoldIdle /\ ConcIdle

LabelDbCreate ==
    /\ backend = "db"
    /\ last = NoCall
    /\ \E name \in LabelNames :
         /\ SelectLabelNamed(db, name) # None \/ db.labels_seq <= Len(KnownLabels) + MaxLabels
         /\ LET r == CreateLabelDb(db, name) IN
            /\ db' = r.db
            /\ last' = LabelCall("label_create", 0, Some(name), r.result)
    /\ UNCHANGED backend
    /\ ItemsIdle /\ FoldIdle /\ ConcIdle /\ LabelIdle

LabelDbAll ==
    /\ backend = "db"
    /\ last = NoCall
    /\ last' = LabelCall("label_all", 0, None, AllLabelsDb(db))
    /\ UNCHANGED <<backend, db>>
    /\ ItemsIdle /\ FoldIdle /\ ConcIdle /\ LabelIdle

LabelDbDelete ==
    /\ backend = "db"
    /\ last = NoCall
    /\ \E id \in LabelIds :
         LET r == DeleteLabelDb(db, id) IN
         /\ db' = r.db
         /\ last' = LabelCall("label_delete", id, None, r.result)
    /\ UNCHANGED backend
    /\ ItemsIdle /\ FoldIdle /\ ConcIdle /\ LabelIdle

NextLabel ==
    \/ Respond
    \/ LabelMemCreate \/ LabelMemAll \/ LabelMemDelete
    \/ LabelDbCreate \/ LabelDbAll \/ LabelDbDelete
    \/ MemCreate \/ MemFind \/ MemAll \/ MemDelete
    \/ DbCreate \/ DbFind \/ DbAll \/ DbDelete

SpecLabel == Init /\ [][NextLabel]_vars

\* The labels the label store of backend b holds.
LabelsIn(b, m, d) ==
    IF b = "memory" THEN {m[i] : i \in DOMAIN m}
    ELSE {Label(i, d.labels[i]) : i \in DOMAIN d.labels}

\* The positions of the labels named `name` in the result of all on database d.
NamedInAll(d, name) ==
    {j \in 1..Len(AllLabelsDb(d).val) : AllLabelsDb(d).val[j].name = name}

\* C13  Label dedup, persistent backend: a create(n) while a label named n
\* exists, with id k, fails with Duplicate(k) and inserts no row, and all()
\* afterwards holds exactly one label named n.
DuplicateLabelRefused ==
    [][ (/\ backend = "db"
         /\ last'.op = "label_create"
         /\ \E k \in DOMAIN db.labels : db.labels[k] = last'.text[1]) =>
            /\ \E k \in DOMAIN db.labels :
                 db.labels[k] = last'.text[1] /\ last'.result = Duplicate(k)
            /\ db' = db
            /\ Cardinality(NamedInAll(db', last'.text[1])) = 1 ]_vars

\* A create that was refused for the name of a label created before it.
DuplicateLabelRefusedWitness ==
    /\ backend = "db"
    /\ last.op = "label_create"
    /\ last.result = Duplicate(Len(KnownLabels) + 1)
    /\ db.labels_seq = Len(KnownLabels) + 2

\* C14  In-memory label create is idempotent on the name: a create(n) while a
\* label named n is stored returns that label, with its id, as success and
\* leaves the label store as it was.
LabelCreateIsIdempotent ==
    [][ (/\ backend = "memory"
         /\ last'.op = "label_create"
         /\ \E i \in DOMAIN label_store : label_store[i].name = last'.text[1]) =>
            /\ last'.result.tag = "Ok"
            /\ last'.result.val[1] \in LabelsIn("memory", label_store, db)
            /\ last'.result.val[1].name = last'.text[1]
            /\ label_store' = label_store ]_vars

\* A second create of the first label's name, with two labels stored.
LabelCreateIsIdempotentWitness ==
    /\ backend = "memory"
    /\ last.op = "label_create"
    /\ last.result.tag = "Ok"
    /\ last.result.val[1].id = 1
    /\ Cardinality(DOMAIN label_store) = 2

\* C15  Label delete, both backends: delete(id) while no label has that id
\* fails with NotFound(id) and leaves the label store as it was; while the
\* label exists it succeeds and removes that label and no other.
LabelDeleteReportsAbsence ==
    [][ last'.op = "label_delete" =>
            LET before == LabelsIn(backend, label_store, db)
                after == LabelsIn(backend, label_store', db')
                mine == {l \in before : l.id = last'.id}
            IN IF mine = {}
               THEN last'.result = NotFound(last'.id) /\ after = before
               ELSE last'.result.tag = "Ok" /\ after = before \ mine ]_vars

-----------------------------------------------------------------------------
(* Further claims about the item repository under Spec *)

\* C16  Item update on an absent id, both backends: an update(id, u) while no
\* item has that id fails with NotFound(id), whatever u is, and leaves the
\* item store and the join relation as they were (no item is created).
UpdateOfAbsentItemIsNotFound ==
    [][ (last'.op = "update" /\ Stored(backend, store, db, last'.id) = NotFound(last'.id)) =>
            /\ last'.result = NotFound(last'.id)
            /\ store' = store
            /\ db'.todos = db.todos
            /\ db'.todo_labels = db.todo_labels ]_vars

\* C27  Item delete on an absent id: in both backends a delete(id) while no
\* item has that id fails with NotFound(id), the same outcome in the two
\* backends, and leaves the item store and the join relation as they were.
DeleteOfAbsentItemIsNotFound ==
    [][ (last'.op = "delete" /\ Stored(backend, store, db, last'.id) = NotFound(last'.id)) =>
            /\ last'.result = NotFound(last'.id)
            /\ store' = store
            /\ db'.todos = db.todos
            /\ db'.todo_labels = db.todo_labels ]_vars

-----------------------------------------------------------------------------
(* SpecFault: the relational repositories, one caller at a time, on a store *)
(* that may fail any one round trip of a call.  The awaits of a call are    *)
(* numbered from 1 in program order; `at` is the await that fails, 0 when   *)
(* none does.  A failed statement has no effect on the store; begin and     *)
(* commit act on a transaction that holds no statement.                     *)

\* TodoRepositoryForDb::create.  Awaits: 1 begin, 2 INSERT INTO todos,
\* 3 INSERT INTO todo_labels, 4 commit, 5 the SELECT of self.find.  Only
\* find converts its error (map_err); the others leave through `?`.
CreateDbFailing(d, text, ids, at) ==
    IF at \in {1, 2} THEN DbOut(d, Sqlx)
    ELSE LET d1 == InsertTodo(d, text)
             id == d.todos_seq
         IN IF at = 3 \/ ~ForeignKeysHold(d1, id, ids) THEN DbOut(d1, Sqlx)
            ELSE LET d2 == InsertTodoLabels(d1, id, ids)
                 IN IF at = 4 THEN DbOut(d2, Sqlx)
                    ELSE IF at = 5 THEN DbOut(d2, Unexpected)
                    ELSE DbOut(d2, FindDb(d2, id))

\* TodoRepositoryForDb::find.  Awaits: 1 the SELECT.
FindDbFailing(d, id, at) == IF at = 1 THEN Unexpected ELSE FindDb(d, id)

\* TodoRepositoryForDb::all.  Awaits: 1 the SELECT.
AllDbFailing(d, at) == IF at = 1 THEN Sqlx ELSE AllDb(d)

\* TodoRepositoryForDb::update.  Awaits: 1 begin, 2 the SELECT of self.find,
\* 3 UPDATE todos, 4 DELETE FROM todo_labels, 5 INSERT INTO todo_labels,
\* 6 commit, 7 the SELECT of self.find; 4 and 5 only with label ids.
UpdateDbFailing(d, id, text, completed, labels, at) ==
    IF at = 1 THEN DbOut(d, Sqlx)
    ELSE LET old_todo == FindDbFailing(d, id, IF at = 2 THEN 1 ELSE 0) IN
    IF old_todo.tag # "Ok" THEN DbOut(d, old_todo)
    ELSE IF at = 3 THEN DbOut(d, Sqlx)
    ELSE LET d1 == UpdateTodoRow(d, id,
                       IF text # None THEN text[1] ELSE old_todo.val[1].text,
                       IF completed # None THEN completed[1]
                       ELSE old_todo.val[1].completed)
             d3 == IF labels = None THEN d1
                   ELSE InsertTodoLabels(DeleteTodoLabels(d1, id), id, labels[1])
         IN IF labels # None /\ at = 4 THEN DbOut(d1, Sqlx)
            ELSE IF labels # None /\ (at = 5 \/ ~ForeignKeysHold(d1, id, labels[1]))
                 THEN DbOut(DeleteTodoLabels(d1, id), Sqlx)
            ELSE IF at = 6 THEN DbOut(d3, Sqlx)
            ELSE DbOut(d3, FindDbFailing(d3, id, IF at = 7 THEN 1 ELSE 0))

\* TodoRepositoryForDb::delete.  Awaits: 1 begin, 2 DELETE FROM todo_labels,
\* 3 DELETE FROM todos, 4 commit.  Both DELETEs convert their error.
DeleteDbFailing(d, id, at) ==
    IF at = 1 THEN DbOut(d, Sqlx)
    ELSE IF at = 2 THEN DbOut(d, Unexpected)
    ELSE IF at = 3 THEN DbOut(DeleteTodoLabels(d, id), Unexpected)
    ELSE IF at = 4 THEN DbOut(DeleteTodoRow(DeleteTodoLabels(d, id), id), Sqlx)
    ELSE DeleteDb(d, id)

\* LabelRepositoryForDb::create.  Awaits: 1 the SELECT by name, 2 the INSERT.
CreateLabelDbFailing(d, name, at) ==
    IF at = 1 THEN DbOut(d, Sqlx)
    ELSE IF at = 2 /\ SelectLabelNamed(d, name) = None THEN DbOut(d, Sqlx)
    ELSE CreateLabelDb(d, name)

\* LabelRepositoryForDb::all.  Awaits: 1 the SELECT.
AllLabelsDbFailing(d, at) == IF at = 1 THEN Sqlx ELSE AllLabelsDb(d)

\* LabelRepositoryForDb::delete.  Awaits: 1 the DELETE, its error converted.
DeleteLabelDbFailing(d, id, at) ==
    IF at = 1 THEN DbOut(d, Unexpected) ELSE DeleteLabelDb(d, id)

FaultyCreate ==
    /\ last = NoCall
    /\ db.todos_seq <= MaxTodos
    /\ \E text \in Texts, ids \in LabelIdInputs, at \in 0..5 :
         LET r == CreateDbFailing(db, text, ids, at) IN
         /\ db' = r.db
         /\ last' = Call("create", 0, Some(text), None, Some(ids), r.result)
         /\ issued' = IF at \in {1, 2} THEN issued ELSE issued \cup {db.todos_seq}
    /\ UNCHANGED <<backend, store, poisoned>>
    /\ FoldIdle /\ ConcIdle /\ LabelIdle

FaultyFind ==
    /\ last = NoCall
    /\ \E id \in TodoIds, at \in 0..1 :
         last' = Call("find", id, None, None, None, FindDbFailing(db, id, at))
    /\ UNCHANGED <<backend, store, poisoned, db, issued>>
    /\ FoldIdle /\ ConcIdle /\ LabelIdle

FaultyAll ==
    /\ last = NoCall
    /\ \E at \in 0..1 :
         last' = Call("all", 0, None, None, None, AllDbFailing(db, at))
    /\ UNCHANGED <<backend, store, poisoned, db, issued>>
    /\ FoldIdle /\ ConcIdle /\ LabelIdle

\* The update payloads tried against a failing store: those with at most one
\* field present (which await fails does not depend on the fields' values).
FaultyUpdatePayloads ==
    { u \in [text : Option(Texts), completed : Option(BOOLEAN),
              labels : Option(LabelIdInputs)] :
        Cardinality({f \in {"text", "completed", "labels"} : u[f] # None}) <= 1 }

FaultyUpdate ==
    /\ last = NoCall
    /\ \E id \in TodoIds, u \in FaultyUpdatePayloads, at \in 0..7 :
         LET r == UpdateDbFailing(db, id, u.text, u.completed, u.labels, at) IN
         /\ db' = r.db
         /\ last' = Call("update", id, u.text, u.completed, u.labels, r.result)
    /\ UNCHANGED <<backend, store, poisoned, issued>>
    /\ FoldIdle /\ ConcIdle /\ LabelIdle

FaultyDelete ==
    /\ last = NoCall
    /\ \E id \in TodoIds, at \in 0..4 :
         LET r == DeleteDbFailing(db, id, at) IN
         /\ db' = r.db
         /\ last' = Call("delete", id, None, None, None, r.result)
    /\ UNCHANGED <<backend, store, poisoned, issued>>
    /\ FoldIdle /\ ConcIdle /\ LabelIdle

FaultyLabelCreate ==
    /\ last = NoCall
    /\ \E name \in LabelNames, at \in 0..2 :
         /\ SelectLabelNamed(db, name) # None \/ db.labels_seq <= Len(KnownLabels) + MaxLabels
         /\ LET r == CreateLabelDbFailing(db, name, at) IN
            /\ db' = r.db
            /\ last' = LabelCall("label_create", 0, Some(name), r.result)
    /\ UNCHANGED backend
    /\ ItemsIdle /\ FoldIdle /\ ConcIdle /\ LabelIdle

FaultyLabelAll ==
    /\ last = NoCall
    /\ \E at \in 0..1 :
         last' = LabelCall("label_all", 0, None, AllLabelsDbFailing(db, at))
    /\ UNCHANGED <<backend, db>>
    /\ ItemsIdle /\ FoldIdle /\ ConcIdle /\ LabelIdle

FaultyLabelDelete ==
    /\ last = NoCall
    /\ \E id \in LabelIds, at \in 0..1 :
         LET r == DeleteLabelDbFailing(db, id, at) IN
         /\ db' = r.db
         /\ last' = LabelCall("label_delete", id, None, r.result)
    /\ UNCHANGED backend
    /\ ItemsIdle /\ FoldIdle /\ ConcIdle /\ LabelIdle

NextFault ==
    \/ Respond
    \/ FaultyCreate \/ FaultyFind \/ FaultyAll \/ FaultyUpdate \/ FaultyDelete
    \/ FaultyLabelCreate \/ FaultyLabelAll \/ FaultyLabelDelete

SpecFault == InitDb /\ [][NextFault]_vars

\* C17  Closed error taxonomy: every failure a repository call returns, of
\* the item or the label repository, whatever round trip to the store
\* failed, is a NotFound, a Duplicate or an Unexpected; no error of the
\* store's driver reaches the caller unconverted.
ClosedErrorTaxonomy ==
    last.result.tag \notin {"Ok", "Panic"} =>
        last.result.tag \in {"NotFound", "Duplicate", "Unexpected"}

\* The handlers (handlers/todo.rs, handlers/label.rs): the StatusCode a
\* handler answers with for the result of its repository call, Aborted when
\* the handler panics instead of answering.
Aborted == "aborted"

\* repo.create(payload).await.or(Err(StatusCode::NOT_FOUND))?, then CREATED.
create_todo(result) ==
    IF result.tag = "Panic" THEN Aborted
    ELSE IF result.tag = "Ok" THEN "CREATED" ELSE "NOT_FOUND"

\* repo.find(id).await.or(Err(StatusCode::NOT_FOUND))?, then OK.
find_todo(result) ==
    IF result.tag = "Panic" THEN Aborted
    ELSE IF result.tag = "Ok" THEN "OK" ELSE "NOT_FOUND"

\* repo.all().await.unwrap(), then OK.
all_todo(result) == IF result.tag = "Ok" THEN "OK" ELSE Aborted

\* repo.update(id, payload).await.or(Err(StatusCode::NOT_FOUND))?, then CREATED.
update_todo(result) ==
    IF result.tag = "Panic" THEN Aborted
    ELSE IF result.tag = "Ok" THEN "CREATED" ELSE "NOT_FOUND"

\* repo.delete(id).await.map(|_| NO_CONTENT).unwrap_or(NOT_FOUND)
delete_todo(result) ==
    IF result.tag = "Panic" THEN Aborted
    ELSE IF result.tag = "Ok" THEN "NO_CONTENT" ELSE "NOT_FOUND"

\* repo.create(payload).await.or(Err(INTERNAL_SERVER_ERROR))?, then CREATED.
create_label(result) ==
    IF result.tag = "Panic" THEN Aborted
    ELSE IF result.tag = "Ok" THEN "CREATED" ELSE "INTERNAL_SERVER_ERROR"

\* repo.all().await.unwrap(), then OK.
all_label(result) == IF result.tag = "Ok" THEN "OK" ELSE Aborted

\* repo.delete(id).await.map(|_| NO_CONTENT).unwrap_or(INTERNAL_SERVER_ERROR)
delete_label(result) ==
    IF result.tag = "Panic" THEN Aborted
    ELSE IF result.tag = "Ok" THEN "NO_CONTENT" ELSE "INTERNAL_SERVER_ERROR"

\* The answer of the handler that made repository call `call`.
Handler(call) ==
    CASE call.op = "create" -> create_todo(call.result)
      [] call.op = "find" -> find_todo(call.result)
      [] call.op = "all" -> all_todo(call.result)
      [] call.op = "update" -> update_todo(call.result)
      [] call.op = "delete" -> delete_todo(call.result)
      [] call.op = "label_create" -> create_label(call.result)
      [] call.op = "label_all" -> all_label(call.result)
      [] call.op = "label_delete" -> delete_label(call.result)

\* C28  HTTP status mapping: every handler answers a NotFound of its
\* repository call with 404, an Unexpected with 500 and a success with 200,
\* 201 or 204; no error a repository call returns makes the handler abort
\* instead of answering with a status.
StatusMapping ==
    last # NoCall =>
        /\ last.result.tag = "NotFound" => Handler(last) = "NOT_FOUND"
        /\ last.result.tag = "Unexpected" => Handler(last) = "INTERNAL_SERVER_ERROR"
        /\ last.result.tag = "Ok" => Handler(last) \in {"OK", "CREATED", "NO_CONTENT"}
        /\ last.result.tag \notin {"Ok", "Panic"} => Handler(last) # Aborted

\* The items backend b stores, read off the map or off the tables.
StoredItems(b, m, d) ==
    IF b = "memory" THEN {m[i] : i \in DOMAIN m}
    ELSE {TodoEntity(i, d.todos[i].text, d.todos[i].completed,
                     [k \in 1..Len(d.todo_labels[i]) |->
                         Label(d.todo_labels[i][k], d.labels[d.todo_labels[i][k]])]) :
            i \in DOMAIN d.todos}

\* C19  all() is complete and duplicate-free: all() returns, and what it
\* returns holds every stored item exactly once, items without labels
\* included, each with all its labels; in the persistent backend the items
\* come in strictly descending order of id.
AllReturnsEveryItemOnce ==
    last.op = "all" =>
        /\ last.result.tag = "Ok"
        /\ Len(last.result.val) = Cardinality(StoredItems(backend, store, db))
        /\ Items(last.result) = StoredItems(backend, store, db)
        /\ backend = "db" =>
             \A k \in 1..(Len(last.result.val) - 1) :
                 last.result.val[k].id > last.result.val[k + 1].id

\* The items all returns on backend b, none when it aborts.
AllItemsIn(b, m, p, d) ==
    IF b = "memory" THEN (IF p THEN {} ELSE {m[i] : i \in DOMAIN m})
    ELSE IF AllDb(d).tag = "Ok" THEN Items(AllDb(d)) ELSE {}

\* C20  Reads agree with reported writes: when update(id, u) returns entity
\* e, a find(id) issued next returns e and all() contains e; and an item that
\* find returns keeps being returned, with the same content, across every
\* call that is not an update or a delete of its id, later creates included.
ReadsAgreeWithWrites ==
    [][ /\ (last'.op = "update" /\ last'.result.tag = "Ok") =>
              /\ FindIn(backend, store', poisoned', db', last'.id) = last'.result
              /\ last'.result.val[1] \in AllItemsIn(backend, store', poisoned', db')
        /\ \A id \in TodoIds :
              (/\ Find(id).tag = "Ok"
               /\ ~(last'.op \in {"update", "delete"} /\ last'.id = id)) =>
                  FindIn(backend, store', poisoned', db', id) = Find(id) ]_vars

-----------------------------------------------------------------------------
(* Claims about items and labels together, under SpecLabel *)

\* C18  Labels of an item exist at read time, both backends: every label in
\* the labels of an item that find or all returns is a label the label store
\* holds at that time; a label that label delete removed appears in no item
\* returned afterwards.
ReturnedLabelsExist ==
    (last.op \in {"find", "all"} /\ last.result.tag = "Ok") =>
        \A k \in 1..Len(last.result.val) :
            \A j \in 1..Len(last.result.val[k].labels) :
                last.result.val[k].labels[j] \in LabelsIn(backend, label_store, db)

\* C26  In-memory create frame: after any sequence of creates and deletes, a
\* create that inserts a new entity (an item, or a label whose name is not
\* stored) adds exactly one entry to its store and leaves every entity
\* stored before present and unchanged.
MemCreateFrame ==
    [][ backend = "memory" =>
          /\ (last'.op = "create" /\ last'.result.tag = "Ok") =>
                /\ Cardinality(DOMAIN store') = Cardinality(DOMAIN store) + 1
                /\ \A i \in DOMAIN store : i \in DOMAIN store' /\ store'[i] = store[i]
          /\ (/\ last'.op = "label_create" /\ last'.result.tag = "Ok"
              /\ MemLabelsNamed(label_store, last'.text[1]) = {}) =>
                /\ Cardinality(DOMAIN label_store') = Cardinality(DOMAIN label_store) + 1
                /\ \A i \in DOMAIN label_store :
                      i \in DOMAIN label_store' /\ label_store'[i] = label_store[i] ]_vars

-----------------------------------------------------------------------------
(* SpecMem: the in-memory repositories used by concurrent callers.  A call *)
(* takes the guard of its store's RwLock, runs its body one statement per  *)
(* step and drops the guard when it returns or unwinds.                    *)

WriteOps == {"create", "update", "delete", "label_create", "label_delete"}

ReadOps == {"find", "all", "label_all"}

\* The store a call works on: the item repository's or the label repository's.
ResourceOf(op) ==
    IF op \in {"label_create", "label_all", "label_delete"} THEN "label" ELSE "todo"

\* The mutant of CanWrite used by LockDiscipline: a write guard is handed
\* out whatever guards are held.
CanWriteAlways(l) == TRUE

\* RwLock::write returns once no guard is held.
CanWrite(l) == l.writer = None /\ l.readers = {}

\* RwLock::read returns once no write guard is held.
CanRead(l) == l.writer = None

\* The caller holds a guard of the lock of store r.
Holds(c, r) == lock[r].writer = Some(c) \/ c \in lock[r].readers

\* Dropping the caller's guard.
Release(c, r) ==
    lock' = [lock EXCEPT ![r] =
                [writer |-> IF @.writer = Some(c) THEN None ELSE @.writer,
                 readers |-> @.readers \ {c}]]

\* The first statement of a call's body, behind the guard.
FirstStep(op) ==
    CASE op = "create" -> "create_id"
      [] op = "update" -> "update_get"
      [] op = "delete" -> "delete_remove"
      [] op = "find" -> "find_get"
      [] op = "all" -> "all_values"
      [] op = "label_create" -> "label_find"
      [] op = "label_delete" -> "label_remove"
      [] op = "label_all" -> "label_values"

\* The calls in flight that will insert under a fresh key.
InFlight(op) ==
    Cardinality({c \in Callers : pc[c] \notin {"idle", "done"} /\ loc[c].op = op})

\* The calls a caller may make on the two in-memory repositories.
MemCalls ==
    {Call("create", 0, Some(t), None, Some(ids), Ok(<<>>)) :
        t \in Texts, ids \in LabelIdInputs}
    \cup {Call("find", id, None, None, None, Ok(<<>>)) : id \in TodoIds}
    \cup {Call("all", 0, None, None, None, Ok(<<>>))}
    \cup {Call("update", id, u.text, u.completed, u.labels, Ok(<<>>)) :
            id \in TodoIds, u \in FaultyUpdatePayloads}
    \cup {Call("delete", id, None, None, None, Ok(<<>>)) : id \in TodoIds}
    \cup {Call("label_create", 0, Some(n), None, None, Ok(<<>>)) : n \in LabelNames}
    \cup {Call("label_all", 0, None, None, None, Ok(<<>>))}
    \cup {Call("label_delete", id, None, None, None, Ok(<<>>)) : id \in 1..MaxLabels}

InitMem == Init /\ backend = "memory"

MemIdle == UNCHANGED <<backend, db, last, issued, rows, folded, seen, stripped>>

\* A handler calls a repository method.
Begin(c) ==
    /\ Start(c)
    /\ \E call \in MemCalls :
         /\ call.op = "create" =>
              Cardinality(DOMAIN store) + InFlight("create") < MaxTodos
         /\ call.op = "label_create" =>
              Cardinality(DOMAIN label_store) + InFlight("label_create") < MaxLabels
         /\ loc' = [loc EXCEPT ![c] = Local(call, None)]
    /\ pc' = [pc EXCEPT ![c] = "lock"]
    /\ calls' = [calls EXCEPT ![c] = @ + 1]
    /\ UNCHANGED <<store, poisoned, label_store, lock>>
    /\ MemIdle

\* write_store_ref / read_store_ref: self.store.write().unwrap() or
\* self.store.read().unwrap().  A poisoned lock hands the guard out inside an
\* Err, and the unwrap panics and drops it.
Lock(c) ==
    /\ pc[c] = "lock"
    /\ LET r == ResourceOf(loc[c].op) IN
       /\ IF loc[c].op \in WriteOps THEN CanWrite(lock[r]) ELSE CanRead(lock[r])
       /\ IF r = "todo" /\ poisoned
          THEN /\ Finish(c, Panic)
               /\ UNCHANGED lock
          ELSE /\ pc' = [pc EXCEPT ![c] = FirstStep(loc[c].op)]
               /\ lock' = [lock EXCEPT ![r] =
                             IF loc[c].op \in WriteOps
                             THEN [@ EXCEPT !.writer = Some(c)]
                             ELSE [@ EXCEPT !.readers = @ \cup {c}]]
               /\ UNCHANGED loc
    /\ UNCHANGED <<store, poisoned, label_store, calls>>
    /\ MemIdle

\* create: let id = (store.len() + 1) as i32
CreateId(c) ==
    /\ pc[c] = "create_id"
    /\ loc' = [loc EXCEPT ![c].id = NextMemId(store)]
    /\ pc' = [pc EXCEPT ![c] = "create_store"]
    /\ UNCHANGED <<store, poisoned, label_store, lock, calls>>
    /\ MemIdle

\* create: resolve_labels, store.insert(id, todo), Ok(todo).  A panic of
\* resolve_labels unwinds through the write guard: the guard is dropped and
\* the lock is poisoned.
CreateStore(c) ==
    /\ pc[c] = "create_store"
    /\ LET labels == resolve_labels(loc[c].labels[1]) IN
       IF labels.tag # "Ok"
       THEN /\ poisoned' = TRUE
            /\ Finish(c, Panic)
            /\ UNCHANGED store
       ELSE LET todo == TodoEntity(loc[c].id, loc[c].text[1], FALSE, labels.val) IN
            /\ store' = MapInsert(store, loc[c].id, todo)
            /\ Finish(c, Ok(<<todo>>))
            /\ UNCHANGED poisoned
    /\ Release(c, "todo")
    /\ UNCHANGED <<label_store, calls>>
    /\ MemIdle

\* update: let todo = store.get(&id).context(RepositoryError::NotFound(id))?
UpdateGet(c) ==
    /\ pc[c] = "update_get"
    /\ IF loc[c].id \in DOMAIN store
       THEN /\ loc' = [loc EXCEPT ![c].old = Some(store[loc[c].id])]
            /\ pc' = [pc EXCEPT ![c] = "update_store"]
            /\ UNCHANGED lock
       ELSE /\ Finish(c, NotFound(loc[c].id))
            /\ Release(c, "todo")
    /\ UNCHANGED <<store, poisoned, label_store, calls>>
    /\ MemIdle

\* update: the new fields, store.insert(id, todo), Ok(todo).
UpdateStore(c) ==
    /\ pc[c] = "update_store"
    /\ LET todo == loc[c].old[1]
           text == IF loc[c].text # None THEN loc[c].text[1] ELSE todo.text
           completed == IF loc[c].completed # None THEN loc[c].completed[1]
                        ELSE todo.completed
           labels == IF loc[c].labels # None THEN resolve_labels(loc[c].labels[1])
                     ELSE Ok(todo.labels)
       IN IF labels.tag # "Ok"
          THEN /\ poisoned' = TRUE
               /\ Finish(c, Panic)
               /\ UNCHANGED store
          ELSE LET new == TodoEntity(loc[c].id, text, completed, labels.val) IN
               /\ store' = MapInsert(store, loc[c].id, new)
               /\ Finish(c, Ok(<<new>>))
               /\ UNCHANGED poisoned
    /\ Release(c, "todo")
    /\ UNCHANGED <<label_store, calls>>
    /\ MemIdle

\* delete: store.remove(&id).ok_or(RepositoryError::NotFound(id))?
DeleteRemove(c) ==
    /\ pc[c] = "delete_remove"
    /\ IF loc[c].id \in DOMAIN store
       THEN /\ store' = MapRemove(store, loc[c].id)
            /\ Finish(c, Ok(<<>>))
       ELSE /\ Finish(c, NotFound(loc[c].id))
            /\ UNCHANGED store
    /\ Release(c, "todo")
    /\ UNCHANGED <<poisoned, label_store, calls>>
    /\ MemIdle

\* find: store.get(&id).cloned().ok_or(RepositoryError::NotFound(id))?
FindGet(c) ==
    /\ pc[c] = "find_get"
    /\ Finish(c, IF loc[c].id \in DOMAIN store THEN Ok(<<store[loc[c].id]>>)
                 ELSE NotFound(loc[c].id))
    /\ Release(c, "todo")
    /\ UNCHANGED <<store, poisoned, label_store, calls>>
    /\ MemIdle

\* all: Vec::from_iter(store.values().map(|todo| todo.clone()))
AllValues(c) ==
    /\ pc[c] = "all_values"
    /\ \E e \in Enumerations(store) :
         Finish(c, Ok([k \in DOMAIN e |-> store[e[k]]]))
    /\ Release(c, "todo")
    /\ UNCHANGED <<store, poisoned, label_store, calls>>
    /\ MemIdle

\* label create: the lookup by name; a label of that name is returned,
\* otherwise let id = (store.len() + 1) as i32.
LabelFind(c) ==
    /\ pc[c] = "label_find"
    /\ LET named == MemLabelsNamed(label_store, loc[c].text[1]) IN
       IF named # {}
       THEN /\ \E i \in named : Finish(c, Ok(<<label_store[i]>>))
            /\ Release(c, "label")
       ELSE /\ loc' = [loc EXCEPT ![c].id = NextLabelId(label_store)]
            /\ pc' = [pc EXCEPT ![c] = "label_store"]
            /\ UNCHANGED lock
    /\ UNCHANGED <<store, poisoned, label_store, calls>>
    /\ MemIdle

\* label create: store.insert(id, label.clone()), Ok(label).
LabelStore(c) ==
    /\ pc[c] = "label_store"
    /\ LET label == Label(loc[c].id, loc[c].text[1]) IN
       /\ label_store' = MapInsert(label_store, loc[c].id, label)
       /\ Finish(c, Ok(<<label>>))
    /\ Release(c, "label")
    /\ UNCHANGED <<store, poisoned, calls>>
    /\ MemIdle

\* label delete: store.remove(&id).ok_or(RepositoryError::NotFound(id))?
LabelRemove(c) ==
    /\ pc[c] = "label_remove"
    /\ IF loc[c].id \in DOMAIN label_store
       THEN /\ label_store' = MapRemove(label_store, loc[c].id)
            /\ Finish(c, Ok(<<>>))
       ELSE /\ Finish(c, NotFound(loc[c].id))
            /\ UNCHANGED label_store
    /\ Release(c, "label")
    /\ UNCHANGED <<store, poisoned, calls>>
    /\ MemIdle

\* label all: Vec::from_iter(store.values().cloned())
LabelValues(c) ==
    /\ pc[c] = "label_values"
    /\ \E e \in Enumerations(label_store) :
         Finish(c, Ok([k \in DOMAIN e |-> label_store[e[k]]]))
    /\ Release(c, "label")
    /\ UNCHANGED <<store, poisoned, label_store, calls>>
    /\ MemIdle

\* The steps of a call that has begun.
Proceed(c) ==
    \/ Lock(c)
    \/ CreateId(c) \/ CreateStore(c)
    \/ UpdateGet(c) \/ UpdateStore(c)
    \/ DeleteRemove(c) \/ FindGet(c) \/ AllValues(c)
    \/ LabelFind(c) \/ LabelStore(c) \/ LabelRemove(c) \/ LabelValues(c)

NextMem ==
    \E c \in Callers : Begin(c) \/ Proceed(c) \/ ConcRespond(c)

SpecMem == InitMem /\ [][NextMem]_vars

\* The bodies that run behind a write guard, and those behind a read guard.
WriteBodies ==
    {"create_id", "create_store", "update_get", "update_store", "delete_remove",
     "label_find", "label_store", "label_remove"}

ReadBodies == {"find_get", "all_values", "label_values"}

\* The store behind the lock of r.
Guarded(r) == IF r = "todo" THEN store ELSE label_store

\* Every caller inside a body holds the matching guard, and a writer of a
\* store is alone in the bodies of that store.
GuardsHeld ==
    \A c \in Callers :
        LET r == ResourceOf(loc[c].op) IN
        /\ pc[c] \in WriteBodies =>
             /\ lock[r].writer = Some(c)
             /\ \A d \in Callers \ {c} :
                   ~(pc[d] \in WriteBodies \cup ReadBodies /\ ResourceOf(loc[d].op) = r)
        /\ pc[c] \in ReadBodies => c \in lock[r].readers
        /\ pc[c] \notin WriteBodies \cup ReadBodies =>
             \A s \in Resources : ~Holds(c, s)

\* C21  In-memory lock discipline: every find and all runs holding its
\* store's lock in shared mode and every create, update and delete holding it
\* exclusively, from its first statement to its return; no write overlaps
\* another write or a read of the same store; and between a write's lookup or
\* id computation and its insert no other call changes the store.
LockDiscipline ==
    [][ /\ GuardsHeld'
        /\ \A c \in Callers :
              (pc[c] \in WriteBodies \cup ReadBodies /\ pc'[c] = pc[c]) =>
                  Guarded(ResourceOf(loc[c].op))' = Guarded(ResourceOf(loc[c].op)) ]_vars

\* A create is past its id computation and holds the write guard while the
\* other caller has called create or find and waits for the lock.
LockDisciplineWitness ==
    /\ pc[1] = "create_store" /\ lock["todo"].writer = Some(1)
    /\ pc[2] = "lock" /\ loc[2].op \in {"create", "find"}

\* SpecMem under fair scheduling: a call that has begun and can take a step
\* eventually takes one (the runtime keeps polling a ready task, and a lock
\* that is free is eventually handed to a waiting caller).
SpecMemFair == SpecMem /\ \A c \in Callers : WF_vars(Proceed(c))

\* The caller holds a guard of the lock of the store its call works on.
HoldsItsLock(c) == Holds(c, ResourceOf(loc[c].op))

\* C22  In-memory lock liveness: a call that waits for its store's lock
\* stops waiting only by taking the lock and eventually holds it, whatever
\* calls ended before it, with a result, an error or on unknown label ids;
\* a call that holds the lock eventually has ended and holds it no longer.
LockLiveness ==
    /\ [][ \A c \in Callers :
              (pc[c] = "lock" /\ pc'[c] # "lock") => HoldsItsLock(c)' ]_vars
    /\ \A c \in Callers :
          /\ (pc[c] = "lock") ~> HoldsItsLock(c)
          /\ HoldsItsLock(c) ~> (pc[c] = "done" /\ ~HoldsItsLock(c))

-----------------------------------------------------------------------------
(* SpecRace: the relational label repository used by concurrent callers,   *)
(* one statement per step.                                                 *)

\* The labels table's unique constraint on name: an INSERT of a name that a
\* row already has is refused.
NameTaken(d, name) == \E i \in DOMAIN d.labels : d.labels[i] = name

\* A refused INSERT still draws its id from the table's sequence.
SkipLabelId(d) == [d EXCEPT !.labels_seq = d.labels_seq + 1]

RaceIdle == UNCHANGED <<issued, seen, stripped>>

\* label create, lines 47-54: SELECT * FROM labels WHERE name = $1, and the
\* Duplicate return when a row came back.
LabelSelect(c) ==
    /\ Start(c)
    /\ db.labels_seq + InFlight("label_create") <= Len(KnownLabels) + MaxLabels
    /\ \E name \in LabelNames :
         LET optional_label == SelectLabelNamed(db, name) IN
         IF optional_label # None
         THEN /\ loc' = [loc EXCEPT ![c] =
                           Local(LabelCall("label_create", 0, Some(name),
                                           Duplicate(optional_label[1].id)), None)]
              /\ pc' = [pc EXCEPT ![c] = "done"]
         ELSE /\ loc' = [loc EXCEPT ![c] =
                           Local(LabelCall("label_create", 0, Some(name), Ok(<<>>)), None)]
              /\ pc' = [pc EXCEPT ![c] = "label_insert"]
    /\ calls' = [calls EXCEPT ![c] = @ + 1]
    /\ UNCHANGED db
    /\ RaceIdle /\ SeqIdle

\* label create, lines 56-61: INSERT INTO labels (name) VALUES ($1)
\* RETURNING *, its error passed on by `?`.
LabelInsert(c) ==
    /\ pc[c] = "label_insert"
    /\ IF NameTaken(db, loc[c].text[1])
       THEN /\ db' = SkipLabelId(db)
            /\ Finish(c, Sqlx)
       ELSE /\ db' = InsertLabel(db, loc[c].text[1])
            /\ Finish(c, Ok(<<Label(db.labels_seq, loc[c].text[1])>>))
    /\ UNCHANGED calls
    /\ RaceIdle /\ SeqIdle

\* label all, lines 64-69.
RaceLabelAll(c) ==
    /\ Start(c)
    /\ loc' = [loc EXCEPT ![c] =
                 Local(LabelCall("label_all", 0, None, AllLabelsDb(db)), None)]
    /\ pc' = [pc EXCEPT ![c] = "done"]
    /\ calls' = [calls EXCEPT ![c] = @ + 1]
    /\ UNCHANGED db
    /\ RaceIdle /\ SeqIdle

\* label delete, lines 71-82.
RaceLabelDelete(c) ==
    /\ Start(c)
    /\ \E id \in LabelIds :
         LET r == DeleteLabelDb(db, id) IN
         /\ db' = r.db
         /\ loc' = [loc EXCEPT ![c] =
                      Local(LabelCall("label_delete", id, None, r.result), None)]
    /\ pc' = [pc EXCEPT ![c] = "done"]
    /\ calls' = [calls EXCEPT ![c] = @ + 1]
    /\ RaceIdle /\ SeqIdle

NextRace ==
    \E c \in Callers :
        \/ LabelSelect(c) \/ LabelInsert(c)
        \/ RaceLabelAll(c) \/ RaceLabelDelete(c)
        \/ ConcRespond(c)

SpecRace == InitDb /\ [][NextRace]_vars

\* C24  Label name uniqueness under concurrency, persistent backend: the
\* labels table never holds two labels of one name; of two creates of one
\* name that both have returned at most one succeeded, and when one
\* succeeded the other failed with Duplicate carrying the id of the label
\* the winner returned.
ConcurrentLabelCreatesUnique ==
    /\ \A i, j \in DOMAIN db.labels : i # j => db.labels[i] # db.labels[j]
    /\ \A c, d \in Callers :
          (/\ c # d
           /\ pc[c] = "done" /\ pc[d] = "done"
           /\ loc[c].op = "label_create" /\ loc[d].op = "label_create"
           /\ loc[c].text = loc[d].text
           /\ loc[c].result.tag = "Ok") =>
              loc[d].result = Duplicate(loc[c].result.val[1].id)

====
